---- MODULE Spec2Model ----
(***************************************************************************)
(* Model of the upload-pack service of go-git                              *)
(* (plumbing/transport/upload_pack.go): the negotiation in UploadPack and  *)
(* the depth-limited commit walk of getShallowCommits.                     *)
(***************************************************************************)
EXTENDS Integers, Sequences, FiniteSets, TLC

\* ------------------------------------------------------------------ bounds
\* Number of commits in the object store of the traversal specification.
NumCommits == 4
\* Longest list of heads handed to getShallowCommits.
MaxHeads == 2

\* ------------------------------------------------------- program constants
\* math.MaxInt, the "unlimited depth" sentinel (the largest value the model's
\* integers hold; it is only ever compared, never computed with).
MaxInt == 2147483647

\* The nil *object.Commit.
Nil == [id |-> 0, Hash |-> 0]

VARIABLES
    st,      \* the object store: commit hash -> ordered parent hashes
    heads,   \* getShallowCommits argument: the head hashes
    depth,   \* getShallowCommits argument: the depth limit
    gsc,     \* the locals of a running getShallowCommits call
    opts,    \* UploadPack argument: the protocol version and the two flags
    pc,      \* the position of the UploadPack call
    log,     \* what UploadPack did on r and w so far, in order
    upreq,   \* the decoded upload request
    havesWithRef, \* the hashes of the index of line 113
    haves,   \* the accumulated haves
    done,    \* the done flag of the last have-batch
    nbatch,  \* have-batches decoded so far
    ret      \* the result of the call

gscVars == <<heads, depth, gsc>>
upVars == <<opts, pc, log, upreq, havesWithRef, haves, done, nbatch, ret>>
vars == <<st, heads, depth, gsc, opts, pc, log, upreq, havesWithRef, haves,
          done, nbatch, ret>>

\* ------------------------------------------------------------ object store
Commits == 1..NumCommits
\* A hash no object of the store has.
NoObject == NumCommits + 1

RECURSIVE InjSeqs(_)
\* All sequences without repetition over the set S.
InjSeqs(S) ==
    IF S = {} THEN {<<>>}
    ELSE {<<>>} \cup
         UNION {{<<x>> \o t : t \in InjSeqs(S \ {x})} : x \in S}

RECURSIVE GraphsFrom(_)
\* The parent lists of the commits c..NumCommits, as a sequence.
GraphsFrom(c) ==
    IF c > NumCommits THEN {<<>>}
    ELSE {<<p>> \o g : p \in InjSeqs((c + 1)..NumCommits),
                       g \in GraphsFrom(c + 1)}

\* The commit graphs: every commit lists its parents in a fixed order, and a
\* parent is an older (higher numbered) commit, so the graph is acyclic. The
\* store is complete: the parents of a stored commit are stored, so that
\* parents.Next() fails with io.EOF only.
Graphs == GraphsFrom(1)

SeqsUpTo(S, n) == UNION {[1..k -> S] : k \in 0..n}

\* --------------------------------------------------- getShallowCommits
\* st.EncodedObject + object.DecodeCommit: a hash of the store decodes to a
\* newly allocated *object.Commit; n is the allocation count so far.
NewCommit(h, n) == [id |-> n + 1, Hash |-> h]

\* depths[c] of the Go map keyed by *object.Commit: 0 for an absent key.
DepthOf(s, c) == IF c.id \in DOMAIN s.depths THEN s.depths[c.id] ELSE 0

SetDepth(s, c, d) ==
    [x \in (DOMAIN s.depths) \cup {c.id} |->
        IF x = c.id THEN d ELSE s.depths[x]]

\* Locals after `var i, curDepth int; var commit; depths := ...; stack := ...`.
GscInit ==
    [i |-> 0, curDepth |-> 0, commit |-> Nil, depths |-> <<>>,
     stack |-> <<>>, Shallows |-> <<>>, Unshallows |-> <<>>,
     nalloc |-> 0, visited |-> <<>>, ret |-> "running"]

\* The loop condition of line 240.
LoopCond(hs, s) == s.commit # Nil \/ s.i < Len(hs) \/ Len(s.stack) > 0

\* ReachedLimit with the comparison made strict.
ReachedLimitStrict(d, cur) == d # MaxInt /\ cur > d

\* ReachedLimit with the sentinel test inverted.
ReachedLimitInverted(d, cur) == d = MaxInt \/ cur >= d

\* The depth test of line 266.
ReachedLimit(d, cur) == d # MaxInt /\ cur >= d

\* The skip test of line 285.
SkipParent(s, parent) ==
    DepthOf(s, parent) # 0 /\ s.curDepth >= DepthOf(s, parent)

RECURSIVE ParentLoop(_, _, _)
\* The loop over commit.Parents() of lines 276-297; ps are the parent hashes
\* and k the number of them the iterator has handed out. Every parents.Next()
\* that succeeds decodes a new commit object and advances the iterator: the
\* one of line 291 too, whose commit is dropped.
ParentLoop(s, ps, k) ==
    IF k >= Len(ps) THEN s                                \* io.EOF: break
    ELSE
      LET parent == NewCommit(ps[k + 1], s.nalloc)
          s1 == [s EXCEPT !.nalloc = @ + 1]
      IN IF SkipParent(s1, parent)
         THEN ParentLoop(s1, ps, k + 1)                   \* continue
         ELSE
           LET s2 == [s1 EXCEPT !.depths = SetDepth(s1, parent, s1.curDepth)]
           IN IF k + 1 < Len(ps)
              THEN ParentLoop([s2 EXCEPT !.stack = Append(@, parent),
                                         !.nalloc = @ + 1],
                              ps, k + 2)
              ELSE ParentLoop([s2 EXCEPT !.commit = parent,
                                         !.curDepth = DepthOf(s2, parent)],
                              ps, k + 1)

\* Lines 264-297: the visit of the current commit.
Visit(store, d, s) ==
    LET s1 == [s EXCEPT !.curDepth = @ + 1,
                        !.visited = Append(@, s.commit.Hash)]
    IN IF ReachedLimit(d, s1.curDepth)
       THEN [s1 EXCEPT !.Shallows = Append(@, s.commit.Hash),
                       !.commit = Nil]
       ELSE ParentLoop([s1 EXCEPT !.Unshallows = Append(@, s.commit.Hash),
                                  !.commit = Nil],
                       store[s.commit.Hash], 0)

\* GscIter without the i++ of line 244 when the lookup of the head fails.
GscIterNoAdvance(store, hs, d, s) ==
    IF s.commit = Nil
    THEN IF s.i < Len(hs)
         THEN IF hs[s.i + 1] \notin DOMAIN store
              THEN s
              ELSE LET c == NewCommit(hs[s.i + 1], s.nalloc)
                       s1 == [s EXCEPT !.i = @ + 1, !.commit = c,
                                       !.nalloc = @ + 1, !.curDepth = 0]
                   IN Visit(store, d,
                            [s1 EXCEPT !.depths = SetDepth(s1, c, 0)])
         ELSE LET c == s.stack[Len(s.stack)]
              IN Visit(store, d,
                       [s EXCEPT !.commit = c,
                                 !.stack = SubSeq(@, 1, Len(@) - 1),
                                 !.curDepth = DepthOf(s, c)])
    ELSE Visit(store, d, s)

\* GscIter with the lookup failure of a head returned to the caller.
GscIterFailsOnBadHead(store, hs, d, s) ==
    IF s.commit = Nil
    THEN IF s.i < Len(hs)
         THEN IF hs[s.i + 1] \notin DOMAIN store
              THEN [s EXCEPT !.i = @ + 1, !.ret = "error"]
              ELSE LET c == NewCommit(hs[s.i + 1], s.nalloc)
                       s1 == [s EXCEPT !.i = @ + 1, !.commit = c,
                                       !.nalloc = @ + 1, !.curDepth = 0]
                   IN Visit(store, d,
                            [s1 EXCEPT !.depths = SetDepth(s1, c, 0)])
         ELSE LET c == s.stack[Len(s.stack)]
              IN Visit(store, d,
                       [s EXCEPT !.commit = c,
                                 !.stack = SubSeq(@, 1, Len(@) - 1),
                                 !.curDepth = DepthOf(s, c)])
    ELSE Visit(store, d, s)

\* One iteration of the loop of lines 240-299.
GscIter(store, hs, d, s) ==
    IF s.commit = Nil
    THEN IF s.i < Len(hs)
         THEN IF hs[s.i + 1] \notin DOMAIN store
              \* EncodedObject or DecodeCommit fails: continue
              THEN [s EXCEPT !.i = @ + 1]
              ELSE LET c == NewCommit(hs[s.i + 1], s.nalloc)
                       s1 == [s EXCEPT !.i = @ + 1, !.commit = c,
                                       !.nalloc = @ + 1, !.curDepth = 0]
                   IN Visit(store, d,
                            [s1 EXCEPT !.depths = SetDepth(s1, c, 0)])
         ELSE LET c == s.stack[Len(s.stack)]
              IN Visit(store, d,
                       [s EXCEPT !.commit = c,
                                 !.stack = SubSeq(@, 1, Len(@) - 1),
                                 !.curDepth = DepthOf(s, c)])
    ELSE Visit(store, d, s)

RECURSIVE GscRun(_, _, _, _)
\* The whole call: iterate until the loop condition fails or an error returns.
GscRun(store, hs, d, s) ==
    IF s.ret # "running" THEN s
    ELSE IF ~LoopCond(hs, s) THEN [s EXCEPT !.ret = "nil"]
    ELSE GscRun(store, hs, d, GscIter(store, hs, d, s))

\* ------------------------------------------------------------ UploadPack
\* Number of commits in the store UploadPack serves.
ServedCommits == 3
\* Longest want list of an upload request.
MaxWants == 1
\* Longest have list of one have-batch.
MaxHaves == 2
\* Have-batches a client sends at most; the last one carries done.
MaxBatches == 2
\* Deepest "deepen N" a client asks for.
MaxDepthReq == 1

\* protocol.V0, V1, V2 and a version number the switch of line 45 does not know.
Versions == {0, 1, 2, 3}

Capabilities ==
    {"multi_ack", "multi_ack_detailed", "side-band", "side-band-64k",
     "no-progress"}

\* plumbing.ZeroHash; the hashes of objects are the positive numbers.
ZeroHash == 0

\* The zero packp.ACK; status "plain" is the zero ACKStatus.
NoAck == [Hash |-> ZeroHash, Status |-> "plain"]

\* upreq.Depth: a DepthCommits n (0 when the request has no deepen line), or
\* a DepthSince or DepthReference, which the decoder sets to a non-zero value.
DepthReqs ==
    [kind : {"commits"}, n : 0..MaxDepthReq] \cup [kind : {"other"}, n : {1}]

\* IsZero with the test of line 92 never skipping the shallow update.
IsZeroNever(d) == FALSE

\* Depth.IsZero().
IsZero(d) == d.n = 0

\* The store UploadPack serves: one linear history, commit 1 the newest.
ServedStore ==
    [c \in 1..ServedCommits |-> IF c < ServedCommits THEN <<c + 1>> ELSE <<>>]

RECURSIVE Ancestors(_, _)
\* The commits reachable from commit c, c included.
Ancestors(g, c) ==
    {c} \cup UNION {Ancestors(g, g[c][k]) : k \in 1..Len(g[c])}

Range(sq) == {sq[k] : k \in 1..Len(sq)}

ReachableFrom(g, hs) ==
    UNION {Ancestors(g, h) : h \in Range(hs) \cap DOMAIN g}

\* revlist.ObjectsWithRef(st, wants, nil): the hashes the index has a key for.
ObjectsWithRef(g, wants) == ReachableFrom(g, wants)

\* revlist.Objects(st, wants, haves).
Objects(g, wants, hvs) == ReachableFrom(g, wants) \ ReachableFrom(g, hvs)

\* objectsToUpload of line 230; its call of line 201 passes wants and haves.
objectsToUpload(g, wants, hvs) == Objects(g, wants, hvs)

\* One operation on the reader r or the writer w.
Ev(op, kind, data, ok) == [op |-> op, kind |-> kind, data |-> data, ok |-> ok]

\* AckStatus with the two detailed statuses exchanged.
AckStatusSwapped(ok, multiAck, multiAckDetailed) ==
    IF multiAckDetailed THEN (IF ok THEN "ready" ELSE "common")
    ELSE IF multiAck THEN "continue"
    ELSE "plain"

\* The status of lines 144-152.
AckStatus(ok, multiAck, multiAckDetailed) ==
    IF multiAckDetailed THEN (IF ok THEN "common" ELSE "ready")
    ELSE IF multiAck THEN "continue"
    ELSE "plain"

RECURSIVE ScanHavesNoBreak(_, _, _, _, _, _)
\* ScanHaves without the break of line 158.
ScanHavesNoBreak(hs, k, index, multiAck, multiAckDetailed, r) ==
    IF k > Len(hs) THEN r
    ELSE
      LET hu == hs[k]
          ok == hu \in index
          a == [Hash |-> hu, Status |-> AckStatus(ok, multiAck, multiAckDetailed)]
      IN IF ok \/ multiAck \/ multiAckDetailed
         THEN ScanHavesNoBreak(hs, k + 1, index, multiAck, multiAckDetailed,
                               [ack |-> a, acks |-> Append(r.acks, a)])
         ELSE ScanHavesNoBreak(hs, k + 1, index, multiAck, multiAckDetailed, r)

RECURSIVE ScanHaves(_, _, _, _, _, _)
\* The loop of lines 136-161 from the k-th have of the batch on; r holds the
\* locals ack and acks.
ScanHaves(hs, k, index, multiAck, multiAckDetailed, r) ==
    IF k > Len(hs) THEN r
    ELSE
      LET hu == hs[k]
          ok == hu \in index
          a == [Hash |-> hu, Status |-> AckStatus(ok, multiAck, multiAckDetailed)]
      IN IF ok \/ multiAck \/ multiAckDetailed
         THEN LET r1 == [ack |-> a, acks |-> Append(r.acks, a)]
              IN IF ~multiAck /\ ~multiAckDetailed
                 THEN r1                                       \* break
                 ELSE ScanHaves(hs, k + 1, index, multiAck, multiAckDetailed, r1)
         ELSE ScanHaves(hs, k + 1, index, multiAck, multiAckDetailed, r)

\* A server response: its ACKs, the have-batch it answers and the line of
\* the code that sends it.
Response(acks, batch, site) == [ACKs |-> acks, batch |-> batch, site |-> site]

\* Lines 163-169: the batch's ack list, sent when haves have accumulated.
AckResponse(allHaves, acks, batch) ==
    IF Len(allHaves) > 0 THEN <<Response(acks, batch, "acks")>> ELSE <<>>

\* ClosingResponse without the test of line 186: a final batch that is not
\* closed by an ACK is closed by a NAK.
ClosingResponseAlwaysNak(isDone, ack, multi, batch) ==
    IF ~isDone
    THEN (IF multi THEN <<Response(<<>>, batch, "nak")>> ELSE <<>>)
    ELSE IF ack.Hash # ZeroHash /\ multi
         THEN <<Response(<<[ack EXCEPT !.Status = "plain"]>>, batch, "final-ack")>>
    ELSE <<Response(<<>>, batch, "final-nak")>>

\* ClosingResponse without the assignment of line 181: the final ACK keeps
\* the status it had in the ack list.
ClosingResponseKeepsStatus(isDone, ack, multi, batch) ==
    IF ~isDone
    THEN (IF multi THEN <<Response(<<>>, batch, "nak")>> ELSE <<>>)
    ELSE IF ack.Hash # ZeroHash /\ multi
         THEN <<Response(<<ack>>, batch, "final-ack")>>
    ELSE IF ack.Hash = ZeroHash
         THEN <<Response(<<>>, batch, "final-nak")>>
    ELSE <<>>

\* Lines 171-192: the message that closes the batch.
ClosingResponse(isDone, ack, multi, batch) ==
    IF ~isDone
    THEN (IF multi THEN <<Response(<<>>, batch, "nak")>> ELSE <<>>)
    ELSE IF ack.Hash # ZeroHash /\ multi
         THEN <<Response(<<[ack EXCEPT !.Status = "plain"]>>, batch, "final-ack")>>
    ELSE IF ack.Hash = ZeroHash
         THEN <<Response(<<>>, batch, "final-nak")>>
    ELSE <<>>

\* Lines 207-214: the writer the packfile is encoded to.
Writer(caps) ==
    IF "no-progress" \notin caps
    THEN IF "side-band-64k" \in caps THEN "sideband64k"
         ELSE IF "side-band" \in caps THEN "sideband"
         ELSE "raw"
    ELSE "raw"

\* AnnouncesVersion with the version line written for every version.
AnnouncesVersionAlways(v) == TRUE

\* The version line of line 49 is written for this version.
AnnouncesVersion(v) == v = 1

\* The switch of lines 45-56 knows this version.
KnownVersion(v) == v \in {0, 1, 2}

\* The condition of line 58.
Advertises(o) == o.AdvertiseRefs \/ ~o.StatelessRPC

NoRequest == [Wants |-> <<>>, Depth |-> [kind |-> "commits", n |-> 0],
              Capabilities |-> {}]

Return(r) == pc' = "returned" /\ ret' = r

\* Lines 45-56: the protocol version.
Version ==
    /\ pc = "version"
    /\ UNCHANGED <<st, gscVars, opts, upreq, havesWithRef, haves, done, nbatch>>
    /\ \/ /\ ~KnownVersion(opts.version)
          /\ Return("unknown protocol version")
          /\ UNCHANGED log
       \/ /\ KnownVersion(opts.version)
          /\ ~AnnouncesVersion(opts.version)
          /\ pc' = "advertise"
          /\ UNCHANGED <<log, ret>>
       \/ /\ KnownVersion(opts.version)
          /\ AnnouncesVersion(opts.version)
          /\ log' = Append(log, Ev("write", "version", opts.version, TRUE))
          /\ pc' = "advertise"
          /\ UNCHANGED ret
       \/ /\ KnownVersion(opts.version)
          /\ AnnouncesVersion(opts.version)
          /\ log' = Append(log, Ev("write", "version", opts.version, FALSE))
          /\ Return("writing version")

\* Lines 58-62, and the return of line 227 when the advertisement was all
\* the caller asked for.
Advertise ==
    /\ pc = "advertise"
    /\ UNCHANGED <<st, gscVars, opts, upreq, havesWithRef, haves, done, nbatch>>
    /\ \/ /\ ~Advertises(opts)
          /\ pc' = "peek"
          /\ UNCHANGED <<log, ret>>
       \/ /\ Advertises(opts)
          /\ log' = Append(log, Ev("write", "advrefs", <<>>, TRUE))
          /\ IF opts.AdvertiseRefs
             THEN Return("nil")
             ELSE pc' = "peek" /\ UNCHANGED ret
       \/ /\ Advertises(opts)
          /\ log' = Append(log, Ev("write", "advrefs", <<>>, FALSE))
          /\ Return("advertising references")

\* IsFlush with the flush marker not recognised.
IsFlushNever(l) == FALSE

\* The test of line 74.
IsFlush(l) == l = "flush"

\* Lines 64-76: the first framed unit of the client is peeked.
PeekLine ==
    /\ pc = "peek"
    /\ UNCHANGED <<st, gscVars, opts, upreq, havesWithRef, haves, done, nbatch>>
    /\ \/ /\ log' = Append(log, Ev("peek", "error", <<>>, FALSE))
          /\ Return("peeking line")
       \/ \E l \in {"flush", "line"} :
            /\ log' = Append(log, Ev("peek", l, <<>>, TRUE))
            /\ IF IsFlush(l)
               THEN Return("nil")
               ELSE pc' = "request" /\ UNCHANGED ret

WantLists == UNION {[1..k -> 1..ServedCommits] : k \in 1..MaxWants}

\* Lines 81-88: the upload request is decoded and the reader closed.
DecodeRequest ==
    /\ pc = "request"
    /\ UNCHANGED <<st, gscVars, opts, havesWithRef, haves, done, nbatch>>
    /\ \/ /\ log' = Append(log, Ev("read", "request", <<>>, FALSE))
          /\ Return("decoding upload-request")
          /\ UNCHANGED upreq
       \/ \E w \in WantLists, d \in DepthReqs, c \in SUBSET Capabilities :
            LET rq == [Wants |-> w, Depth |-> d, Capabilities |-> c]
                rd == Append(log, Ev("read", "request", rq, TRUE))
            IN /\ upreq' = rq
               /\ \/ /\ log' = Append(rd, Ev("close", "reader", <<>>, TRUE))
                     /\ pc' = "shallow"
                     /\ UNCHANGED ret
                  \/ /\ log' = Append(rd, Ev("close", "reader", <<>>, FALSE))
                     /\ Return("closing reader")

\* The shallow update of lines 91-97.
ShallowOf(g, rq) ==
    LET r == GscRun(g, rq.Wants, rq.Depth.n, GscInit)
    IN [Shallows |-> r.Shallows, Unshallows |-> r.Unshallows]

\* Lines 90-120: the shallow update and the index of the wants' history.
ShallowUpdate ==
    /\ pc = "shallow"
    /\ UNCHANGED <<st, gscVars, opts, upreq, haves, done, nbatch>>
    /\ \/ /\ ~IsZero(upreq.Depth)
          /\ upreq.Depth.kind # "commits"
          /\ Return("unsupported depth type")
          /\ UNCHANGED <<log, havesWithRef>>
       \/ /\ ~IsZero(upreq.Depth)
          /\ upreq.Depth.kind = "commits"
          /\ log' = Append(log, Ev("write", "shallow-update",
                                   ShallowOf(st, upreq), FALSE))
          /\ Return("sending shallow-update")
          /\ UNCHANGED havesWithRef
       \/ /\ \/ /\ ~IsZero(upreq.Depth)
                /\ upreq.Depth.kind = "commits"
                /\ log' = Append(log, Ev("write", "shallow-update",
                                         ShallowOf(st, upreq), TRUE))
             \/ /\ IsZero(upreq.Depth)
                /\ UNCHANGED log
          /\ \/ /\ havesWithRef' = ObjectsWithRef(st, upreq.Wants)
                /\ pc' = "haves"
                /\ UNCHANGED ret
             \/ /\ Return("getting objects with ref")
                /\ UNCHANGED havesWithRef

\* The have lists of a batch: a client names an object once.
HaveLists == {hs \in InjSeqs(1..ServedCommits) : Len(hs) <= MaxHaves}

\* LoopAgain with the loop left after its first pass.
LoopAgainNever(isDone) == FALSE

\* Accumulate with the haves of the batch replacing the accumulated ones.
AccumulateLastBatch(hvs, hs) == hs

\* Line 130: haves = append(haves, uphav.Haves...).
Accumulate(hvs, hs) == hvs \o hs

\* The loop condition of line 124.
LoopAgain(isDone) == ~isDone

\* WriteResponses with the error of a failed write ignored: the responses
\* after it are written all the same.
WriteResponsesIgnoreError(l, rs, f) ==
    l \o [k \in 1..Len(rs) |-> Ev("write", "srvrsp", rs[k], k # f)]

\* log with the responses rs written to w; the f-th write fails (0: none).
WriteResponses(l, rs, f) ==
    l \o [k \in 1..(IF f = 0 THEN Len(rs) ELSE f) |->
            Ev("write", "srvrsp", rs[k], k # f)]

\* Lines 124-193: one pass of the have/ack loop.
HaveBatch ==
    /\ pc = "haves"
    /\ UNCHANGED <<st, gscVars, opts, upreq, havesWithRef>>
    /\ \/ /\ log' = Append(log, Ev("read", "haves", <<>>, FALSE))
          /\ Return("decoding upload-haves")
          /\ UNCHANGED <<haves, done, nbatch>>
       \/ \E hs \in HaveLists, dn \in BOOLEAN :
            /\ nbatch + 1 = MaxBatches => dn
            /\ LET multiAck == "multi_ack" \in upreq.Capabilities
                   multiAckDetailed == "multi_ack_detailed" \in upreq.Capabilities
                   uphav == [Haves |-> hs, Done |-> dn]
                   all == Accumulate(haves, hs)
                   r == ScanHaves(hs, 1, havesWithRef, multiAck,
                                  multiAckDetailed,
                                  [ack |-> NoAck, acks |-> <<>>])
                   rs == AckResponse(all, r.acks, nbatch + 1)
                           \o ClosingResponse(dn, r.ack,
                                              multiAck \/ multiAckDetailed,
                                              nbatch + 1)
                   rd == Append(log, Ev("read", "haves", uphav, TRUE))
               IN /\ haves' = all
                  /\ done' = dn
                  /\ nbatch' = nbatch + 1
                  /\ \E f \in 0..Len(rs) :
                       /\ log' = WriteResponses(rd, rs, f)
                       /\ IF f # 0
                          THEN Return("sending server-response")
                          ELSE /\ pc' = IF LoopAgain(dn) THEN "haves" ELSE "finish"
                               /\ UNCHANGED ret

\* Lines 195-227: the packfile.
Finish ==
    /\ pc = "finish"
    /\ UNCHANGED <<st, gscVars, opts, upreq, havesWithRef, haves, done, nbatch>>
    /\ LET objs == objectsToUpload(st, upreq.Wants, haves)
           pack == [writer |-> Writer(upreq.Capabilities), objs |-> objs]
           closed == Append(log, Ev("close", "reader", <<>>, TRUE))
       IN \/ /\ log' = Append(log, Ev("close", "reader", <<>>, FALSE))
             /\ Return("closing reader")
          \/ /\ log' = Append(closed, Ev("close", "writer", <<>>, TRUE))
             /\ Return("getting objects to upload")
          \/ /\ log' = Append(closed, Ev("write", "packfile", pack, FALSE))
             /\ Return("encoding packfile")
          \/ /\ log' = closed \o <<Ev("write", "packfile", pack, TRUE),
                                   Ev("close", "writer", <<>>, FALSE)>>
             /\ Return("closing writer")
          \/ /\ log' = closed \o <<Ev("write", "packfile", pack, TRUE),
                                   Ev("close", "writer", <<>>, TRUE)>>
             /\ Return("nil")

UpInit ==
    /\ pc = "version"
    /\ log = <<>>
    /\ upreq = NoRequest
    /\ havesWithRef = {}
    /\ haves = <<>>
    /\ done = FALSE
    /\ nbatch = 0
    /\ ret = "running"

Init ==
    /\ st = ServedStore
    /\ heads = <<>>
    /\ depth = MaxInt
    /\ gsc = GscInit
    /\ opts \in [version : Versions, AdvertiseRefs : BOOLEAN,
                 StatelessRPC : BOOLEAN]
    /\ UpInit

Next ==
    \/ Version
    \/ Advertise
    \/ PeekLine
    \/ DecodeRequest
    \/ ShallowUpdate
    \/ HaveBatch
    \/ Finish

Spec == Init /\ [][Next]_vars

\* ------------------------------------------- traversal specification
Depths == (1..NumCommits) \cup {MaxInt}

InitShallow ==
    /\ st \in Graphs
    /\ heads \in SeqsUpTo(Commits \cup {NoObject}, MaxHeads)
    /\ depth \in Depths
    /\ gsc = GscInit
    /\ opts = [version |-> 0, AdvertiseRefs |-> FALSE, StatelessRPC |-> FALSE]
    /\ UpInit

ShallowIter ==
    /\ gsc.ret = "running"
    /\ LoopCond(heads, gsc)
    /\ gsc' = GscIter(st, heads, depth, gsc)
    /\ UNCHANGED <<st, heads, depth, upVars>>

ShallowReturn ==
    /\ gsc.ret = "running"
    /\ ~LoopCond(heads, gsc)
    /\ gsc' = [gsc EXCEPT !.ret = "nil"]
    /\ UNCHANGED <<st, heads, depth, upVars>>

NextShallow == ShallowIter \/ ShallowReturn

SpecShallow == InitShallow /\ [][NextShallow]_vars

\* The call runs on: the loop of line 240 is sequential code, so an iteration
\* that can be taken is taken.
SpecShallowFair == SpecShallow /\ WF_vars(NextShallow)

\* ------------------------------------------------- graph vocabulary
Min(S) == CHOOSE x \in S : \A y \in S : x <= y

\* No path.
Far == NumCommits + 1

RECURSIVE Dist(_, _, _)
\* Length of a shortest parent path from commit a to commit b, Far if none.
Dist(g, a, b) ==
    IF a = b THEN 0
    ELSE LET ds == {Dist(g, g[a][k], b) : k \in 1..Len(g[a])} \ {Far}
         IN IF ds = {} THEN Far ELSE 1 + Min(ds)

RECURSIVE LinearFrom(_, _)
\* The history of h is linear: no commit of it has two parents.
LinearFrom(g, h) ==
    \/ g[h] = <<>>
    \/ Len(g[h]) = 1 /\ LinearFrom(g, g[h][1])

RECURSIVE Chain(_, _)
\* The commits of a linear history, the head first.
Chain(g, h) == IF g[h] = <<>> THEN <<h>> ELSE <<h>> \o Chain(g, g[h][1])

Count(x, sq) == Cardinality({k \in 1..Len(sq) : sq[k] = x})

Returned == gsc.ret = "nil"

\* ------------------------------------------------------------------ C1
\* A call on a linear history: one head h, a depth d with 1 <= d < L.
C1Case ==
    /\ Len(heads) = 1
    /\ heads[1] \in Commits
    /\ LinearFrom(st, heads[1])
    /\ depth # MaxInt
    /\ 1 <= depth
    /\ depth < Len(Chain(st, heads[1]))

\* C1 as stated: on a linear history with one head and 1 <= d < L the call
\* yields as only shallow commit the one at distance d from the head and as
\* unshallow commits those at distances 0..d-1, in that order.
C1_AsStated ==
    (C1Case /\ Returned) =>
        LET ch == Chain(st, heads[1])
        IN /\ gsc.Shallows = <<ch[depth + 1]>>
           /\ gsc.Unshallows = SubSeq(ch, 1, depth)

\* C1 amended: on a linear history with one head and 1 <= d < L the call
\* yields as only shallow commit the one at distance d-1 from the head and as
\* unshallow commits those at distances 0..d-2, in that order (for d = 1 the
\* head itself is the shallow commit and nothing is unshallow).
C1_ShallowAtDepthMinusOne ==
    (C1Case /\ Returned) =>
        LET ch == Chain(st, heads[1])
        IN /\ gsc.Shallows = <<ch[depth]>>
           /\ gsc.Unshallows = SubSeq(ch, 1, depth - 1)

\* A linear history of three or more commits was walked with depth 2.
C1_Witness ==
    /\ C1Case
    /\ Returned
    /\ depth = 2
    /\ Len(gsc.Unshallows) = 1
    /\ Len(gsc.Shallows) = 1

\* ------------------------------------------------------------------ C2
\* Commit a is a proper ancestor of two parents of the merge commit m, at
\* different distances from them.
SharedAtDifferentDepths(m, a) ==
    \E j, k \in 1..Len(st[m]) :
        /\ j # k
        /\ Dist(st, st[m][j], a) \in 1..NumCommits
        /\ Dist(st, st[m][k], a) \in 1..NumCommits
        /\ Dist(st, st[m][j], a) # Dist(st, st[m][k], a)

\* C2: when the head is a merge commit whose parents share an ancestor at
\* different depths, the call records that ancestor exactly once, expands it
\* at most once, and classifies it by the smaller depth: it is unshallow
\* when that depth is below the limit and shallow when it equals the limit.
C2_SharedAncestorOnceAtSmallerDepth ==
    (Returned /\ Len(heads) = 1 /\ heads[1] \in Commits) =>
        \A a \in Commits :
            LET d == 1 + Dist(st, heads[1], a)
            IN (SharedAtDifferentDepths(heads[1], a)
                    /\ (depth = MaxInt \/ d <= depth)) =>
                 /\ Count(a, gsc.Shallows \o gsc.Unshallows) = 1
                 /\ Count(a, gsc.Unshallows) <= 1
                 /\ (a \in {gsc.Unshallows[k] : k \in 1..Len(gsc.Unshallows)})
                        <=> (depth = MaxInt \/ d < depth)

\* ------------------------------------------------------------------ C7
\* C7: with the unlimited-depth sentinel the shallow list stays empty and
\* every commit the call visits is appended to the unshallow list.
C7_UnlimitedDepthNoShallows ==
    depth = MaxInt =>
        /\ gsc.Shallows = <<>>
        /\ gsc.Unshallows = gsc.visited

\* An unlimited walk from two heads that visited three commits or more.
C7_Witness ==
    /\ depth = MaxInt
    /\ Returned
    /\ Len(heads) = 2
    /\ Len(gsc.visited) >= 3
    /\ Len(gsc.Unshallows) >= 3

\* ------------------------------------------------- log vocabulary
IsRequestRead(e) == e.op = "read" /\ e.kind = "request"
IsHavesRead(e) == e.op = "read" /\ e.kind = "haves"
IsResponse(e) == e.op = "write" /\ e.kind = "srvrsp"
IsShallowUpdate(e) == e.op = "write" /\ e.kind = "shallow-update"
IsPackfile(e) == e.op = "write" /\ e.kind = "packfile"
IsVersion(e) == e.op = "write" /\ e.kind = "version"
IsAdvertisement(e) == e.op = "write" /\ e.kind = "advrefs"
IsWrite(e) == e.op = "write"
IsRead(e) == e.op = "read"
Succeeded(e) == e.ok

\* The have-batches decoded, the server responses written and the packfiles
\* written, in order.
BatchesRead == SelectSeq(SelectSeq(log, IsHavesRead), Succeeded)
ResponsesWritten == SelectSeq(SelectSeq(log, IsResponse), Succeeded)
PacksWritten == SelectSeq(SelectSeq(log, IsPackfile), Succeeded)
ShallowUpdatesWritten == SelectSeq(SelectSeq(log, IsShallowUpdate), Succeeded)

\* Positions of the log.
Pos == 1..Len(log)

MultiMode ==
    "multi_ack" \in upreq.Capabilities
        \/ "multi_ack_detailed" \in upreq.Capabilities

\* ------------------------------------------------------------------ C3
\* Scenario A has run up to the packfile: one want, no multi-ack mode, one
\* have-batch, final, whose one have is in the index.
ScenarioA ==
    /\ Len(upreq.Wants) = 1
    /\ ~MultiMode
    /\ Len(BatchesRead) = 1
    /\ BatchesRead[1].data.Done
    /\ Len(BatchesRead[1].data.Haves) = 1
    /\ BatchesRead[1].data.Haves[1] \in havesWithRef
    /\ Len(PacksWritten) = 1

\* C3 as stated: in scenario A the one server response before the packfile
\* is a NAK and the packfile holds resolve(wants, [have]).
C3_AsStated ==
    ScenarioA =>
        /\ Len(ResponsesWritten) = 1
        /\ ResponsesWritten[1].data.ACKs = <<>>
        /\ PacksWritten[1].data.objs =
               Objects(st, upreq.Wants, BatchesRead[1].data.Haves)

\* C3 amended: in scenario A the server writes exactly one server response
\* before the packfile, and it holds one plain-status ACK of the have (not a
\* NAK); the packfile holds resolve(wants, [have]).
C3_ScenarioASingleAck ==
    ScenarioA =>
        /\ Len(ResponsesWritten) = 1
        /\ ResponsesWritten[1].data.ACKs =
               <<[Hash |-> BatchesRead[1].data.Haves[1], Status |-> "plain"]>>
        /\ PacksWritten[1].data.objs =
               Objects(st, upreq.Wants, BatchesRead[1].data.Haves)
        /\ \A j, k \in Pos :
               (IsResponse(log[j]) /\ IsPackfile(log[k])) => j < k

\* Scenario A ran to the end on a have that is a proper ancestor of the want.
C3_Witness ==
    /\ ScenarioA
    /\ ret = "nil"
    /\ BatchesRead[1].data.Haves[1] # upreq.Wants[1]
    /\ Len(ResponsesWritten) = 1

\* ------------------------------------------------------------------ C4
\* Scenario B has run past its have-batch: multi-ack-detailed, one have-batch,
\* final, whose one have is not in the index.
ScenarioB ==
    /\ "multi_ack_detailed" \in upreq.Capabilities
    /\ Len(BatchesRead) = 1
    /\ BatchesRead[1].data.Done
    /\ Len(BatchesRead[1].data.Haves) = 1
    /\ BatchesRead[1].data.Haves[1] \notin havesWithRef
    /\ pc = "finish"

\* C4: in scenario B the batch's ack list is one ACK of the have with status
\* ready, the closing message is one ACK of the same hash with plain status,
\* and no NAK is sent.
C4_ScenarioBReadyThenPlain ==
    ScenarioB =>
        LET h == BatchesRead[1].data.Haves[1]
        IN /\ Len(ResponsesWritten) = 2
           /\ ResponsesWritten[1].data.ACKs =
                  <<[Hash |-> h, Status |-> "ready"]>>
           /\ ResponsesWritten[2].data.ACKs =
                  <<[Hash |-> h, Status |-> "plain"]>>
           /\ \A k \in Pos : IsResponse(log[k]) => log[k].data.ACKs # <<>>

\* Scenario B answered its have-batch.
C4_Witness ==
    /\ ScenarioB
    /\ Len(ResponsesWritten) = 2
    /\ upreq.Wants = <<2>>
    /\ BatchesRead[1].data.Haves = <<1>>

\* ------------------------------------------------------------------ C5
\* C5: a have-batch is decoded, or an ACK/NAK written, only after the upload
\* request was decoded; the packfile is written only after a have-batch with
\* done was decoded; and every server response answers the have-batch
\* decoded last, so that the responses follow the order of the batches.
C5_HalfDuplexPhases ==
    \A k \in Pos :
        /\ (IsHavesRead(log[k]) \/ IsResponse(log[k])) =>
               \E j \in 1..(k - 1) : IsRequestRead(log[j]) /\ log[j].ok
        /\ IsPackfile(log[k]) =>
               \E j \in 1..(k - 1) :
                   IsHavesRead(log[j]) /\ log[j].ok /\ log[j].data.Done
        /\ IsResponse(log[k]) =>
               /\ \E j \in 1..(k - 1) : IsHavesRead(log[j]) /\ log[j].ok
               /\ log[k].data.batch =
                      Cardinality({j \in 1..(k - 1) : IsHavesRead(log[j])})
               /\ \A j \in 1..(k - 1) :
                      IsResponse(log[j]) => log[j].data.batch <= log[k].data.batch

\* Two have-batches were answered and the packfile written.
C5_Witness ==
    /\ Len(BatchesRead) = 2
    /\ Len(ResponsesWritten) >= 2
    /\ Len(PacksWritten) = 1
    /\ ret = "nil"

\* ------------------------------------------------------------------ C6
\* The peeked first unit was a flush marker.
PeekedFlush == \E k \in Pos : log[k].op = "peek" /\ log[k].kind = "flush"

\* C6: when the references are not advertised inline and the first framed
\* unit is a flush marker, the call returns success, and nothing but the
\* version line and the advertisement is ever written and nothing decoded.
C6_FlushEndsTheCall ==
    PeekedFlush =>
        /\ ~opts.AdvertiseRefs
        /\ pc = "returned"
        /\ ret = "nil"
        /\ log[Len(log)].op = "peek"
        /\ \A k \in Pos :
               /\ ~IsRead(log[k])
               /\ IsWrite(log[k]) =>
                      IsVersion(log[k]) \/ IsAdvertisement(log[k])

\* A flush was peeked after the references were advertised.
C6_Witness ==
    /\ PeekedFlush
    /\ ret = "nil"
    /\ \E k \in Pos : IsAdvertisement(log[k])

\* ------------------------------------------------------------------ C8
\* The request was decoded.
RequestDecoded == \E k \in Pos : IsRequestRead(log[k]) /\ log[k].ok

\* The have/ack exchange has begun.
ExchangeBegun ==
    \/ pc \in {"haves", "finish"}
    \/ \E k \in Pos : IsHavesRead(log[k]) \/ IsResponse(log[k])

\* C8: with a non-zero commit depth the shallow update of the wants is written
\* exactly once, after the request is decoded and before a have-batch is
\* decoded or an ACK/NAK written; with no depth none is written.
C8_ShallowUpdateBeforeExchange ==
    /\ (RequestDecoded /\ upreq.Depth.n = 0) =>
           \A k \in Pos : ~IsShallowUpdate(log[k])
    /\ ~RequestDecoded => \A k \in Pos : ~IsShallowUpdate(log[k])
    /\ (ExchangeBegun /\ upreq.Depth.kind = "commits" /\ upreq.Depth.n # 0) =>
           /\ Len(ShallowUpdatesWritten) = 1
           /\ ShallowUpdatesWritten[1].data = ShallowOf(st, upreq)
           /\ \A k \in Pos :
                  IsShallowUpdate(log[k]) =>
                      /\ log[k].ok
                      /\ \E j \in 1..(k - 1) : IsRequestRead(log[j])
                      /\ \A j \in 1..(k - 1) :
                             ~IsHavesRead(log[j]) /\ ~IsResponse(log[j])

\* A depth-1 request on a want with two ancestors was answered up to the
\* packfile.
C8_Witness ==
    /\ upreq.Depth = [kind |-> "commits", n |-> 1]
    /\ upreq.Wants = <<1>>
    /\ Len(ShallowUpdatesWritten) = 1
    /\ Len(ResponsesWritten) >= 1
    /\ ret = "nil"

\* ------------------------------------------------------------------ C9
\* The writer the preference order of the sideband capabilities names.
PreferredWriter(caps) ==
    IF "side-band-64k" \in caps THEN "sideband64k"
    ELSE IF "side-band" \in caps THEN "sideband"
    ELSE "raw"

\* C9: the packfile goes to the 64k sideband muxer when side-band-64k was
\* declared, else to the sideband muxer when side-band was declared, and to
\* the raw writer only when neither was declared, whatever no-progress says.
C9_WriterByPreference ==
    \A k \in Pos :
        IsPackfile(log[k]) =>
            log[k].data.writer = PreferredWriter(upreq.Capabilities)

\* ----------------------------------------------------------------- C10
\* C10: under V1 the version line is the first thing written to the client
\* and is written once; under V0 no version line is written.
C10_VersionLineFirst ==
    /\ opts.version = 1 =>
           \A k \in Pos :
               IsWrite(log[k]) =>
                   IF \E j \in 1..(k - 1) : IsWrite(log[j])
                   THEN ~IsVersion(log[k])
                   ELSE IsVersion(log[k])
    /\ opts.version = 0 => \A k \in Pos : ~IsVersion(log[k])

\* Under V1 the version line, the advertisement and a packfile were written.
C10_Witness ==
    /\ opts.version = 1
    /\ Len(log) > 2
    /\ IsVersion(log[1])
    /\ IsAdvertisement(log[2])
    /\ Len(PacksWritten) = 1

\* ----------------------------------------------------------------- C11
\* C11: every parent of an expanded commit (one appended to the unshallow
\* list) is visited in its turn, from the stack or inline, and so ends up in
\* the shallow or the unshallow list.
C11_EveryParentVisited ==
    Returned =>
        \A k \in 1..Len(gsc.Unshallows) :
            \A p \in Range(st[gsc.Unshallows[k]]) :
                p \in Range(gsc.Shallows) \cup Range(gsc.Unshallows)

\* ----------------------------------------------------------------- C12
\* The have-batch the operation at position k of the log belongs to.
BatchBefore(k) ==
    log[CHOOSE j \in 1..(k - 1) :
            /\ IsHavesRead(log[j])
            /\ \A i \in (j + 1)..(k - 1) : ~IsHavesRead(log[i])].data

\* The acknowledgement policy, by capability mode.
PolicyAcks(hs, index, caps) ==
    IF "multi_ack_detailed" \in caps
    THEN [i \in 1..Len(hs) |->
            [Hash |-> hs[i],
             Status |-> IF hs[i] \in index THEN "common" ELSE "ready"]]
    ELSE IF "multi_ack" \in caps
    THEN [i \in 1..Len(hs) |-> [Hash |-> hs[i], Status |-> "continue"]]
    ELSE IF \E i \in 1..Len(hs) : hs[i] \in index
    THEN <<[Hash |-> hs[Min({i \in 1..Len(hs) : hs[i] \in index})],
            Status |-> "plain"]>>
    ELSE <<>>

\* C12: the ack list sent for a have-batch is, under multi-ack-detailed, one
\* ACK per have with status common or ready; under plain multi-ack one ACK
\* per have with status continue; under neither mode the plain ACK of the
\* first have of the batch that is in the index, or nothing.
C12_AckListFollowsPolicy ==
    \A k \in Pos :
        (IsResponse(log[k]) /\ log[k].data.site = "acks") =>
            log[k].data.ACKs =
                PolicyAcks(BatchBefore(k).Haves, havesWithRef,
                           upreq.Capabilities)

\* Without a multi-ack mode a batch of two haves, the first outside the
\* index and the second in it, was answered.
C12_Witness ==
    /\ ~MultiMode
    /\ \E k \in Pos :
           /\ IsResponse(log[k])
           /\ log[k].ok
           /\ log[k].data.site = "acks"
           /\ Len(BatchBefore(k).Haves) = 2
           /\ BatchBefore(k).Haves[1] \notin havesWithRef
           /\ BatchBefore(k).Haves[2] \in havesWithRef

\* ----------------------------------------------------------------- C13
\* The b-th have-batch was decoded and every response to it was written.
Answered(b) ==
    /\ b \in 1..Len(BatchesRead)
    /\ \A k \in Pos :
           (IsResponse(log[k]) /\ log[k].data.batch = b) => log[k].ok

IsClosingOf(e, b) ==
    IsResponse(e) /\ e.data.batch = b /\ e.data.site # "acks"

\* The ack lists of the messages that close the b-th have-batch, in order.
ClosingOf(b) ==
    LET ks == {k \in Pos : IsClosingOf(log[k], b)}
        RECURSIVE InOrder(_)
        InOrder(S) ==
            IF S = {} THEN <<>>
            ELSE <<log[Min(S)].data.ACKs>> \o InOrder(S \ {Min(S)})
    IN InOrder(ks)

\* The hash of the acknowledgement a batch records last; ZeroHash if none.
LastRecorded(hs, index, multi) ==
    IF multi
    THEN (IF hs = <<>> THEN ZeroHash ELSE hs[Len(hs)])
    ELSE IF \E i \in 1..Len(hs) : hs[i] \in index
         THEN hs[Min({i \in 1..Len(hs) : hs[i] \in index})]
         ELSE ZeroHash

\* C13: a final batch is closed by one plain-status ACK of its last recorded
\* acknowledgement when a multi-ack mode is active, by one NAK when nothing
\* was recorded, and by nothing when an acknowledgement was recorded without
\* a multi-ack mode; a batch that is not final is closed by one NAK exactly
\* when a multi-ack mode is active.
C13_ClosingMessage ==
    \A b \in 1..Len(BatchesRead) :
        Answered(b) =>
            LET bt == BatchesRead[b].data
                rec == LastRecorded(bt.Haves, havesWithRef, MultiMode)
            IN ClosingOf(b) =
                 IF ~bt.Done
                 THEN (IF MultiMode THEN <<<<>>>> ELSE <<>>)
                 ELSE IF rec # ZeroHash /\ MultiMode
                      THEN <<<<[Hash |-> rec, Status |-> "plain"]>>>>
                 ELSE IF rec = ZeroHash THEN <<<<>>>>
                 ELSE <<>>

\* Under a multi-ack mode a batch that is not final and a final batch of two
\* haves were both answered.
C13_Witness ==
    /\ MultiMode
    /\ Answered(1)
    /\ Answered(2)
    /\ Len(BatchesRead[2].data.Haves) = 2
    /\ Len(ClosingOf(1)) = 1
    /\ Len(ClosingOf(2)) = 1

\* ----------------------------------------------------------------- C14
\* C14: on every finite acyclic commit graph, for every list of heads and
\* every depth limit, the loop ends: there is no current commit, every head
\* is consumed, the stack is empty and the call returns.
C14_Terminates ==
    <>(/\ gsc.ret = "nil"
       /\ gsc.commit = Nil
       /\ gsc.i = Len(heads)
       /\ gsc.stack = <<>>)

\* A call on a merge commit with unlimited depth returned after it had
\* walked three commits or more.
C14_Witness ==
    /\ Returned
    /\ depth = MaxInt
    /\ Len(heads) = 1
    /\ heads[1] \in Commits
    /\ Len(st[heads[1]]) >= 2
    /\ Len(gsc.visited) >= 3

\* ----------------------------------------------------------------- C15
\* The hash names a commit of the store.
Found(h) == h \in DOMAIN st

\* C15: a head that cannot be looked up adds nothing to either list, the
\* other heads give what they give when the failing heads are left out of
\* the input, and the call returns no error.
C15_FailingHeadSkipped ==
    /\ gsc.ret \in {"running", "nil"}
    /\ Returned =>
           LET r == GscRun(st, SelectSeq(heads, Found), depth, GscInit)
           IN /\ gsc.Shallows = r.Shallows
              /\ gsc.Unshallows = r.Unshallows
              /\ NoObject \notin Range(gsc.Shallows) \cup Range(gsc.Unshallows)

\* A call whose first head failed and whose second head was walked returned.
C15_Witness ==
    /\ Returned
    /\ Len(heads) = 2
    /\ heads[1] = NoObject
    /\ heads[2] \in Commits
    /\ Len(gsc.Unshallows) >= 1
    /\ depth = 2

\* ----------------------------------------------------------------- C16
RECURSIVE HavesOf(_)
\* The haves of the have-batches bs, concatenated in the order of arrival.
HavesOf(bs) ==
    IF bs = <<>> THEN <<>> ELSE bs[1].data.Haves \o HavesOf(Tail(bs))

\* C16: the accumulated haves are the haves of every decoded batch in the
\* order of arrival, scanned or not, common or not; the packfile is encoded
\* once, from resolve(wants, accumulated haves).
C16_AllHavesReachResolver ==
    /\ haves = HavesOf(BatchesRead)
    /\ Cardinality({k \in Pos : IsPackfile(log[k])}) <= 1
    /\ \A k \in Pos :
           IsPackfile(log[k]) =>
               log[k].data.objs =
                   Objects(st, upreq.Wants, HavesOf(BatchesRead))

\* Without a multi-ack mode two batches were decoded, the first with a have
\* that the short-circuit left unscanned, and the packfile was written.
C16_Witness ==
    /\ ~MultiMode
    /\ Len(BatchesRead) = 2
    /\ Len(BatchesRead[1].data.Haves) = 2
    /\ BatchesRead[1].data.Haves[1] \in havesWithRef
    /\ BatchesRead[1].data.Haves[2] \notin havesWithRef
    /\ Len(BatchesRead[2].data.Haves) = 1
    /\ Len(PacksWritten) = 1
    /\ Len(haves) = 3

\* ----------------------------------------------------------------- C17
\* The call returned an error.
Failed == pc = "returned" /\ ret \notin {"running", "nil"}

\* C17: a failed decode, write or close is the last thing the call does on r
\* and w and makes it return an error; nothing is retried; an unsupported
\* depth kind leaves no shallow update, ACK/NAK or packfile behind, and a
\* have-batch that cannot be decoded no packfile.
C17_FailureAborts ==
    /\ \A k \in Pos : ~log[k].ok => (k = Len(log) /\ Failed)
    /\ Cardinality({k \in Pos : IsRequestRead(log[k])}) <= 1
    /\ (RequestDecoded /\ upreq.Depth.kind = "other" /\ pc # "shallow") =>
           /\ Failed
           /\ \A k \in Pos :
                  ~IsShallowUpdate(log[k]) /\ ~IsResponse(log[k])
                      /\ ~IsPackfile(log[k]) /\ ~IsHavesRead(log[k])
    /\ (\E k \in Pos : IsHavesRead(log[k]) /\ ~log[k].ok) =>
           /\ ret = "decoding upload-haves"
           /\ \A k \in Pos : ~IsPackfile(log[k])

\* The second have-batch could not be decoded after the first was answered.
C17_Witness ==
    /\ ret = "decoding upload-haves"
    /\ Len(BatchesRead) = 1
    /\ Len(ResponsesWritten) >= 1
    /\ ~log[Len(log)].ok

\* ----------------------------------------------------------------- C18
IsReaderClose(e) == e.op = "close" /\ e.kind = "reader"

\* C18: nothing is read from the client once the reader has been closed:
\* every have-batch is decoded before the reader's Close.
C18_NoReadAfterClose ==
    \A j, k \in Pos :
        (j < k /\ IsReaderClose(log[j]) /\ log[j].ok) => ~IsRead(log[k])

\* ----------------------------------------------------------------- C19
\* C19: without a multi-ack mode the final have-batch is answered by exactly
\* one server response, a single ACK or a NAK, whatever was accumulated
\* before.
C19_OneResponseToFinalBatch ==
    \A b \in 1..Len(BatchesRead) :
        (~MultiMode /\ BatchesRead[b].data.Done /\ Answered(b)) =>
            /\ Cardinality({k \in Pos : IsResponse(log[k])
                                          /\ log[k].data.batch = b}) = 1
            /\ \A k \in Pos :
                   (IsResponse(log[k]) /\ log[k].data.batch = b) =>
                       Len(log[k].data.ACKs) <= 1

\* ----------------------------------------------------------------- C20
\* C20: no commit is reported both as shallow and as unshallow by one call.
C20_ShallowsUnshallowsDisjoint ==
    Range(gsc.Shallows) \cap Range(gsc.Unshallows) = {}

====
